---- MODULE Spec2Model ----
(***************************************************************************)
(* A model of src/src/Parameter_Scan.cpp (DaMaSCUS-SUN): the Parameter_Scan *)
(* session (mass axis, coupling axis, p-value grid), its scan engine        *)
(* Perform_Scan, the limit extractor Limit_Curve, the p_values.txt          *)
(* import/export, and the Solar_Reflection_Limit session (Upper_Limit,      *)
(* Compute_Limit_Curve, Export_Curve).                                      *)
(*                                                                          *)
(* Real numbers.  The code only compares p-values (p < 1e-100, p < 0.1,     *)
(* p < 1 - CL), so a p-value is represented by its rank in the ordered      *)
(* sample                                                                   *)
(*    0: 0.0   1: 1e-200   2: 1e-100   3: 0.05   4: 0.1                     *)
(*    5: 0.5   6: 0.9      7: 1.0                                           *)
(* which preserves every comparison the code makes.  Masses are integers    *)
(* in units of GeV (GeV = 1 in natural units); couplings are integer        *)
(* multiples of the unit factor cm*cm, so that writing a table (division    *)
(* by the unit) and reading it (multiplication by the unit) are exact.      *)
(*                                                                          *)
(* Sequences are 1-based: the C++ index k is the TLA+ index k + 1.  The     *)
(* loop counters i and j and last_excluded_mass_index keep their C++        *)
(* (0-based) values.                                                        *)
(*                                                                          *)
(* The particle model (obscura::DM_Particle) is its two parameters, written *)
(* by Set_Mass / Set_Interaction_Parameter and read back unchanged.  The    *)
(* collaborators (rate refresh, data generation, spectrum, detector) only   *)
(* yield a p-value or throw.  An access outside a vector and a division by  *)
(* zero are undefined behaviour: the model stops in pc = "undefined", and   *)
(* nothing is stated about what follows.  Console output (Print_Grid, the   *)
(* rank-0 prints), the second file p_grid.txt, the configuration reader     *)
(* and Export_Limits (a loop of Limit_Curve calls) are left out.            *)
(*                                                                          *)
(* Specifications:                                                          *)
(*   Spec       a session and any calls of its methods (small axes)         *)
(*   SpecScan   one Perform_Scan call on a fresh, larger grid               *)
(*   SpecCurve  Limit_Curve on a filled grid of any shape a session has     *)
(*   SpecFile   Export_P_Values then Import_P_Values of a filled session    *)
(*   SpecModel  the particle model under Perform_Scan and the direct-limit  *)
(*              session (Upper_Limit, Compute_Limit_Curve, Export_Curve)    *)
(***************************************************************************)
EXTENDS Integers, Sequences, FiniteSets, TLC

\* ---------------------------------------------------------------- bounds
\* Longest axis handed to the constructor in the session specification.
MaxLen == 2
\* Mass values 1..MaxMassVal (GeV), coupling values CM2 * (1..MaxCouplingVal).
MaxMassVal == 2
MaxCouplingVal == 2
\* Axis lengths of the scan specification (axes 1..n, distinct values).
MaxScanMasses == 4
MaxScanCouplings == 3
\* Largest grid (cells) of the scan specification.
MaxScanCells == 9
\* Direct-limit session: masses, Find_Root evaluations per Upper_Limit call,
\* Compute_Limit_Curve calls per behaviour.
MaxDirectMasses == 1
MaxRootEvals == 1
MaxComputeCalls == 2
\* Top-level calls per behaviour of the session specification.
MaxCalls == 2

\* ------------------------------------------------------ program constants
\* The rank of 1e-100 (the clamp floor), of 0.1 (the hardcoded exclusion
\* threshold), of 0.0 and of 1.0 (the grid's initial value).
P_FLOOR == 2
P_EXCLUDED == 4
P_ZERO == 0
P_ONE == 7
\* Unit factors of the p_values.txt columns: GeV and cm*cm.
GeV == 1
CM2 == 4

\* The p-values the external pipeline (detector.P_Value) returns in the
\* model: 1e-200 (below the floor), 0.05 (excluding), 0.9 (not excluding).
PipelineP == {1, 3, 6}
\* 1 - certainty_level for CL = 0.90 and CL = 0.50.
Thresholds == {4, 5}

\* ---------------------------------------------------------------- helpers
Range(s) == {s[k] : k \in 1..Len(s)}

SeqsUpTo(S, n) == UNION {[1..k -> S] : k \in 0..n}

\* std::sort on a vector<double>.
Sort(s) == SortSeq(s, <)

\* The elements of a std::set<double>, in iteration (ascending) order.
RECURSIVE SetToSeq(_)
SetToSeq(S) ==
    IF S = {} THEN <<>>
    ELSE LET m == CHOOSE x \in S : \A y \in S : x <= y
         IN  <<m>> \o SetToSeq(S \ {m})

MassVals == {GeV * k : k \in 1..MaxMassVal}
CouplingVals == {CM2 * k : k \in 1..MaxCouplingVal}

\* A particle-model value that is on no axis.
OffAxisMass == GeV * (MaxScanMasses + MaxMassVal + 1)
OffAxisCoupling == CM2 * (MaxScanCouplings + MaxCouplingVal + 1)

NoFile == <<"no file">>

VARIABLES
    \* Parameter_Scan
    DM_masses, couplings, p_value_grid,
    \* obscura::DM_Particle: DM.mass and the interaction parameter
    DM_mass, DM_coupling,
    \* control: where the program is
    pc,
    \* locals of Perform_Scan (and the saved originals of Upper_Limit)
    i, j, row_exclusion, last_excluded_mass_index,
    mDM_original, coupling_original,
    \* results/<ID>/p_values.txt, and the value Limit_Curve returned
    file, limit,
    \* Solar_Reflection_Limit
    masses, limits, curve_file,
    \* locals of Upper_Limit / Compute_Limit_Curve
    in_compute, mass_index, evals, mpi_rank,
    \* history: the cells evaluated by the current (or last) Perform_Scan
    \* call, the particle model before the current call, how the last call
    \* ended, the session when p_values.txt was written, the argument of
    \* the last Limit_Curve call, and counters of calls
    trace, pre_mass, pre_coupling, outcome, exported, limit_q,
    compute_calls, calls

vars == <<DM_masses, couplings, p_value_grid, DM_mass, DM_coupling, pc,
          i, j, row_exclusion, last_excluded_mass_index,
          mDM_original, coupling_original, file, limit,
          masses, limits, curve_file, in_compute, mass_index, evals,
          mpi_rank, trace, pre_mass, pre_coupling, outcome, exported, limit_q,
          compute_calls, calls>>

sessionVars == <<DM_masses, couplings, p_value_grid>>
modelVars == <<DM_mass, DM_coupling>>
scanVars == <<i, j, row_exclusion, last_excluded_mass_index>>
savedVars == <<mDM_original, coupling_original>>
ioVars == <<file, limit, exported, limit_q>>
directVars == <<masses, limits, curve_file, in_compute, mass_index, evals,
                mpi_rank, compute_calls>>
preVars == <<pre_mass, pre_coupling>>

\* ------------------------------------------------------------ constructor
\* Parameter_Scan::Parameter_Scan(masses, coupl, samplesize): both axes are
\* sorted, the grid is |couplings| rows of |DM_masses| entries 1.0.
NewGrid(rows, cols) == [r \in 1..rows |-> [c \in 1..cols |-> P_ONE]]

Constructed(ms, cs) ==
    /\ DM_masses = Sort(ms)
    /\ couplings = Sort(cs)
    /\ p_value_grid = NewGrid(Len(cs), Len(ms))

\* Solar_Reflection_Limit::Solar_Reflection_Limit: masses is a Log_Space of
\* Nmass ascending values; limits starts empty.
DirectConstructed(n) ==
    /\ masses = [k \in 1..n |-> GeV * k]
    /\ limits = <<>>

InitRest ==
    /\ pc = "idle"
    /\ i = 0 /\ j = 0 /\ row_exclusion = FALSE
    /\ last_excluded_mass_index = 0
    /\ mDM_original = 0 /\ coupling_original = 0
    /\ file = NoFile /\ limit = <<>>
    /\ curve_file = NoFile
    /\ in_compute = FALSE /\ mass_index = 0 /\ evals = 0 /\ mpi_rank = 0
    /\ trace = <<>> /\ pre_mass = 0 /\ pre_coupling = 0
    /\ outcome = "none" /\ exported = <<>> /\ limit_q = 0
    /\ compute_calls = 0

\* ------------------------------------------------------------ Perform_Scan
\* int index_coupling = couplings.size() - 1 - i (as a 1-based index).
IndexCoupling(ii) == Len(couplings) - ii

\* int index_mass = DM_masses.size() - 1 - j (as a 1-based index).
IndexMass(jj) == Len(DM_masses) - jj

\* A variant of Clamp with the comparison turned around.
Clamp_Flipped(p) == IF p > P_FLOOR THEN P_ZERO ELSE p
\* (p < 1.0e-100) ? 0.0 : p
Clamp(p) == IF p < P_FLOOR THEN P_ZERO ELSE p

\* if(p < 0.1)
Excludes(p) == p < P_EXCLUDED

\* A variant of BreakRow without the margin test.
BreakRow_NoMargin(jj) == row_exclusion
\* else if(row_exclusion || j > last_excluded_mass_index + 1) break;
BreakRow(jj) == row_exclusion \/ jj > last_excluded_mass_index + 1

\* A variant of StopScan that never leaves the row loop early.
StopScan_Never == FALSE
\* if(!row_exclusion) break;
StopScan == ~row_exclusion

\* A variant of LastExcludedAtRowStart that resets the position per row.
LastExcludedAtRowStart_Reset == Len(DM_masses)
\* int last_excluded_mass_index = DM_masses.size(), before the row loop; a
\* row start leaves it alone.
LastExcludedAtRowStart == last_excluded_mass_index

\* A variant of RestoredMass that leaves the mass of the last cell.
RestoredMass_Forgotten == DM_mass
\* DM.Set_Mass(mDM_original) on return.
RestoredMass == mDM_original

\* The write p_value_grid[index_coupling][index_mass] is inside the grid.
InGrid(r, c) ==
    /\ r \in 1..Len(p_value_grid)
    /\ c \in 1..Len(p_value_grid[r])

\* Lines 110-114: save the originals, enter the row loop.
Perform_Scan_Call ==
    /\ pc = "idle"
    /\ calls < MaxCalls
    /\ calls' = calls + 1
    /\ mDM_original' = DM_mass
    /\ coupling_original' = DM_coupling
    /\ last_excluded_mass_index' = Len(DM_masses)
    /\ i' = 0 /\ j' = 0 /\ row_exclusion' = FALSE
    /\ pc' = "row_loop"
    /\ trace' = <<>>
    /\ pre_mass' = DM_mass /\ pre_coupling' = DM_coupling
    /\ outcome' = "running"
    /\ UNCHANGED <<sessionVars, modelVars, ioVars, directVars>>

\* Lines 115-119: the row loop's test and the head of its body.
Scan_RowStart ==
    /\ pc = "row_loop"
    /\ i < Len(couplings)
    /\ row_exclusion' = FALSE
    /\ DM_coupling' = couplings[IndexCoupling(i)]
    /\ last_excluded_mass_index' = LastExcludedAtRowStart
    /\ j' = 0
    /\ pc' = "mass_loop"
    /\ UNCHANGED <<sessionVars, DM_mass, i, savedVars, ioVars, directVars,
                   trace, preVars, outcome, calls>>

\* Lines 120-144: one pass of the mass loop's body, the pipeline returning p.
Scan_Evaluate(p) ==
    /\ pc = "mass_loop"
    /\ j < Len(DM_masses)
    /\ DM_mass' = DM_masses[IndexMass(j)]
    /\ IF InGrid(IndexCoupling(i), IndexMass(j))
       THEN /\ p_value_grid' =
                 [p_value_grid EXCEPT ![IndexCoupling(i)][IndexMass(j)] = Clamp(p)]
            /\ trace' = Append(trace,
                 [i |-> i, j |-> j, coupling |-> DM_coupling,
                  mass |-> DM_masses[IndexMass(j)], p |-> p])
            /\ IF Excludes(p)
               THEN /\ row_exclusion' = TRUE
                    /\ last_excluded_mass_index' = j
                    /\ j' = j + 1
                    /\ pc' = "mass_loop"
               ELSE /\ UNCHANGED <<row_exclusion, last_excluded_mass_index>>
                    /\ IF BreakRow(j)
                       THEN j' = j /\ pc' = "row_end"
                       ELSE j' = j + 1 /\ pc' = "mass_loop"
            /\ UNCHANGED outcome
       ELSE \* a write outside the grid's storage: undefined behaviour
            /\ pc' = "undefined"
            /\ outcome' = "undefined"
            /\ UNCHANGED <<p_value_grid, trace, row_exclusion,
                           last_excluded_mass_index, j>>
    /\ UNCHANGED <<DM_masses, couplings, DM_coupling, i, savedVars, ioVars,
                   directVars, preVars, calls>>

\* Lines 128-133: a collaborator call throws; nothing in Perform_Scan catches.
Scan_Throw ==
    /\ pc = "mass_loop"
    /\ j < Len(DM_masses)
    /\ DM_mass' = DM_masses[IndexMass(j)]
    /\ pc' = "fatal"
    /\ outcome' = "scan_failed"
    /\ UNCHANGED <<sessionVars, DM_coupling, scanVars, savedVars, ioVars,
                   directVars, trace, preVars, calls>>

\* Line 120's test fails: the row is complete.
Scan_RowComplete ==
    /\ pc = "mass_loop"
    /\ j >= Len(DM_masses)
    /\ pc' = "row_end"
    /\ UNCHANGED <<sessionVars, modelVars, scanVars, savedVars, ioVars,
                   directVars, trace, preVars, outcome, calls>>

\* Lines 146-148: stop the scan, or go on to the next row.
Scan_RowEnd ==
    /\ pc = "row_end"
    /\ IF StopScan
       THEN pc' = "scan_exit" /\ i' = i /\ outcome' = "scan_pruned"
       ELSE pc' = "row_loop" /\ i' = i + 1 /\ UNCHANGED outcome
    /\ UNCHANGED <<sessionVars, modelVars, j, row_exclusion,
                   last_excluded_mass_index, savedVars, ioVars, directVars,
                   trace, preVars, calls>>

\* Line 115's test fails: every row was scanned.
Scan_RowsComplete ==
    /\ pc = "row_loop"
    /\ i >= Len(couplings)
    /\ pc' = "scan_exit"
    /\ outcome' = "scan_completed"
    /\ UNCHANGED <<sessionVars, modelVars, scanVars, savedVars, ioVars,
                   directVars, trace, preVars, calls>>

\* Lines 149-150: restore the particle model and return.
Perform_Scan_Return ==
    /\ pc = "scan_exit"
    /\ DM_mass' = RestoredMass
    /\ DM_coupling' = coupling_original
    /\ pc' = "idle"
    /\ UNCHANGED <<sessionVars, scanVars, savedVars, ioVars, directVars,
                   trace, preVars, outcome, calls>>

Perform_Scan ==
    \/ Perform_Scan_Call
    \/ Scan_RowStart
    \/ \E p \in PipelineP : Scan_Evaluate(p)
    \/ Scan_Throw
    \/ Scan_RowComplete
    \/ Scan_RowEnd
    \/ Scan_RowsComplete
    \/ Perform_Scan_Return

\* ------------------------------------------------- the scan specification
\* A fresh session with axes 1..n GeV and (1..k) cm^2 and one Perform_Scan
\* call on it (the last call of the budget); the particle model starts off
\* the axes.
InitScan ==
    /\ \E n \in 1..MaxScanMasses, k \in 1..MaxScanCouplings :
          /\ n * k <= MaxScanCells
          /\ Constructed([x \in 1..n |-> GeV * x], [x \in 1..k |-> CM2 * x])
    /\ DM_mass = OffAxisMass
    /\ DM_coupling = OffAxisCoupling
    /\ DirectConstructed(0)
    /\ InitRest
    /\ calls = MaxCalls - 1

NextScan == Perform_Scan

SpecScan == InitScan /\ [][NextScan]_vars

\* ------------------------------------------------------------- Limit_Curve
\* A variant of ExtremeRow: p_value_grid.front(), the smallest coupling.
ExtremeRow_First == IF p_value_grid = <<>> THEN 0 ELSE 1
\* p_value_grid.back(): the row of the largest coupling.
ExtremeRow == Len(p_value_grid)

\* Line 158 reads p_value_grid.back()[i] for every i < DM_masses.size(); line
\* 162 reads p_value_grid[j][i] for every j < couplings.size().
LimitCurveReadsInGrid ==
    Len(DM_masses) > 0 =>
        /\ Len(p_value_grid) > 0
        /\ Len(p_value_grid) >= Len(couplings)
        /\ \A r \in 1..Len(p_value_grid) : Len(p_value_grid[r]) >= Len(DM_masses)

\* if(p_value_grid.back()[i] < (1.0 - certainty_level)), q being the rank of
\* 1 - certainty_level.
Crosses(c, q) == p_value_grid[ExtremeRow][c] < q

\* The mass columns (1-based) for which the loop of lines 156-167 pushes an
\* entry, in the order it pushes them: columns 1..n.
RECURSIVE CurveColumns(_, _)
CurveColumns(n, q) ==
    IF n = 0 THEN <<>>
    ELSE IF Crosses(n, q)
         THEN Append(CurveColumns(n - 1, q), n)
         ELSE CurveColumns(n - 1, q)

\* The returned vector: {DM_masses[i], coupling_limit} per pushed column, the
\* root root[i] being what Find_Root returned for column i.
CurveOf(q, root) ==
    LET cols == CurveColumns(Len(DM_masses), q)
    IN  [k \in 1..Len(cols) |-> <<DM_masses[cols[k]], root[cols[k]]>>]

\* Limit_Curve(certainty_level), q being the rank of 1 - certainty_level:
\* the curve is returned, or Find_Root throws for a column that crosses.
Limit_Curve(q) ==
    /\ pc = "idle"
    /\ calls < MaxCalls
    /\ calls' = calls + 1
    /\ limit_q' = q
    /\ IF ~LimitCurveReadsInGrid
       THEN \* a read outside the grid's storage: undefined behaviour
            /\ pc' = "undefined"
            /\ outcome' = "undefined"
            /\ UNCHANGED limit
       ELSE \/ /\ \E root \in [1..Len(DM_masses) -> Range(couplings)] :
                     limit' = CurveOf(q, root)
               /\ pc' = "idle"
               /\ outcome' = "limit_curve"
            \/ /\ CurveColumns(Len(DM_masses), q) # <<>>
               /\ pc' = "fatal"
               /\ outcome' = "limit_failed"
               /\ UNCHANGED limit
    /\ UNCHANGED <<sessionVars, modelVars, scanVars, savedVars, file, exported,
                   directVars, trace, preVars>>

\* --------------------------------------------------------- Export_P_Values
\* libphysica::Export_Table writes value / unit, Import_Table reads
\* value * unit, per column.
ToFile(x, unit) == x \div unit
FromFile(x, unit) == x * unit

\* Lines 200-203: one row {mass, coupling, p} per (i, j), i over the masses
\* (outer loop), j over the couplings (inner loop), as written to the file.
TableOf(ms, cs, grid) ==
    [k \in 1..(Len(ms) * Len(cs)) |->
        LET mi == ((k - 1) \div Len(cs)) + 1
            cj == ((k - 1) % Len(cs)) + 1
        IN  <<ToFile(ms[mi], GeV), ToFile(cs[cj], CM2), grid[cj][mi]>>]

\* Line 203 reads p_value_grid[j][i] for i < DM_masses.size(),
\* j < couplings.size().
ExportReadsInGrid ==
    (Len(DM_masses) > 0 /\ Len(couplings) > 0) =>
        /\ Len(p_value_grid) >= Len(couplings)
        /\ \A r \in 1..Len(couplings) : Len(p_value_grid[r]) >= Len(DM_masses)

Export_P_Values(rank) ==
    /\ pc = "idle"
    /\ calls < MaxCalls
    /\ calls' = calls + 1
    /\ IF rank # 0
       THEN /\ outcome' = "export_skipped"
            /\ UNCHANGED <<pc, file, exported>>
       ELSE IF ExportReadsInGrid
            THEN /\ file' = TableOf(DM_masses, couplings, p_value_grid)
                 /\ exported' = <<DM_masses, couplings, p_value_grid>>
                 /\ outcome' = "exported"
                 /\ UNCHANGED pc
            ELSE /\ pc' = "undefined"
                 /\ outcome' = "undefined"
                 /\ UNCHANGED <<file, exported>>
    /\ UNCHANGED <<sessionVars, modelVars, scanVars, savedVars, limit, limit_q,
                   directVars, trace, preVars>>

\* --------------------------------------------------------- Import_P_Values
\* Tables written by other sessions (axes within the bounds, one p-value in
\* every cell), as found in results/<ID>/p_values.txt.
SortedAxes(S) == {Sort(s) : s \in SeqsUpTo(S, MaxLen)}

ForeignTables ==
    {TableOf(ms, cs, [r \in 1..Len(cs) |-> [c \in 1..Len(ms) |-> p]]) :
        ms \in SortedAxes(MassVals), cs \in SortedAxes(CouplingVals),
        p \in {3, 6}}

\* unsigned int number_of_masses = DM_masses.size(), read before DM_masses
\* is reassigned (not mass_set.size()).
NumberOfMasses(table) == Len(DM_masses)

\* A variant of ImportedGrid that reads the table coupling-major.
ImportedGrid_CouplingMajor(table, number_of_masses, number_of_couplings) ==
    [c \in 1..number_of_couplings |->
        [m \in 1..number_of_masses |->
            table[(c - 1) * number_of_masses + m][3]]]
\* Lines 189-193: k runs over the table rows, i over the masses (outer
\* loop), j over the couplings (inner loop): p_value_grid[j][i] = table[k++][2].
ImportedGrid(table, number_of_masses, number_of_couplings) ==
    [c \in 1..number_of_couplings |->
        [m \in 1..number_of_masses |->
            table[(m - 1) * number_of_couplings + c][3]]]

\* Import_P_Values on the file content t (lines 174-193).
Import_P_Values(t) ==
    /\ pc = "idle"
    /\ calls < MaxCalls
    /\ calls' = calls + 1
    /\ LET table == [k \in 1..Len(t) |->
                        <<FromFile(t[k][1], GeV), FromFile(t[k][2], CM2), t[k][3]>>]
           mass_set == {table[k][1] : k \in 1..Len(table)}
           number_of_masses == NumberOfMasses(table)
       IN  IF number_of_masses = 0
           THEN \* table.size() / 0: undefined behaviour
                /\ pc' = "undefined"
                /\ outcome' = "undefined"
                /\ UNCHANGED sessionVars
           ELSE LET number_of_couplings == Len(table) \div number_of_masses
                IN  /\ DM_masses' = SetToSeq(mass_set)
                    /\ couplings' = [k \in 1..number_of_couplings |-> table[k][2]]
                    /\ p_value_grid' =
                          ImportedGrid(table, number_of_masses, number_of_couplings)
                    /\ pc' = "idle"
                    /\ outcome' = IF t = file THEN "imported_file" ELSE "imported"
    /\ UNCHANGED <<modelVars, scanVars, savedVars, ioVars, directVars, trace,
                   preVars>>

\* --------------------------------------------- the session specification
\* A session constructed from any two input vectors (any order, duplicates
\* allowed, possibly empty), then any calls of its methods.
Init ==
    /\ \E ms \in SeqsUpTo(MassVals, MaxLen), cs \in SeqsUpTo(CouplingVals, MaxLen) :
          Constructed(ms, cs)
    /\ DM_mass = OffAxisMass
    /\ DM_coupling = OffAxisCoupling
    /\ DirectConstructed(0)
    /\ InitRest
    /\ calls = 0

Next ==
    \/ Perform_Scan
    \/ \E q \in Thresholds : Limit_Curve(q)
    \/ \E rank \in {0, 1} : Export_P_Values(rank)
    \/ \E t \in (IF file = NoFile THEN {} ELSE {file}) \cup ForeignTables :
          Import_P_Values(t)

Spec == Init /\ [][Next]_vars

\* -------------------------------------------------- the curve specification
\* The p-values a filled grid holds in the curve specification: 0.05, 0.1
\* and 0.9.
CurveP == {3, 4, 6}

\* The shapes <<|DM_masses|, |couplings|, columns of the grid>> a session can
\* have: the constructor leaves as many columns as masses; Import_P_Values
\* on a session that had c >= 1 masses leaves c columns, whatever the number
\* n of distinct masses of the table, and table.size() / c >= n / c rows (an
\* empty table leaves no mass and no row).
CurveShapes ==
    {sh \in (0..MaxLen) \X (0..MaxLen) \X (0..MaxLen) :
        \/ sh[3] = sh[1]
        \/ /\ sh[3] >= 1
           /\ sh[2] >= sh[1] \div sh[3]
           /\ sh[1] = 0 => sh[2] = 0}

\* A session as a scan or an import left it: any shape of CurveShapes, any
\* p-value in any cell; Limit_Curve is then called on it.  A mass axis with
\* duplicates comes from the constructor only.
InitCurve ==
    /\ \E sh \in CurveShapes :
          /\ \/ DM_masses = [x \in 1..sh[1] |-> GeV * x]
             \/ sh[3] = sh[1] /\ DM_masses = [x \in 1..sh[1] |-> GeV]
          /\ couplings = [x \in 1..sh[2] |-> CM2 * x]
          /\ p_value_grid \in [1..sh[2] -> [1..sh[3] -> CurveP]]
    /\ DM_mass = OffAxisMass
    /\ DM_coupling = OffAxisCoupling
    /\ DirectConstructed(0)
    /\ InitRest
    /\ calls = MaxCalls - 1

NextCurve == \E q \in Thresholds : Limit_Curve(q)

SpecCurve == InitCurve /\ [][NextCurve]_vars

\* --------------------------------------------------- the file specification
\* A session the constructor made (any lengths, either axis with distinct
\* values or with one value repeated) whose grid a scan filled, written by
\* Export_P_Values and read back by Import_P_Values.
InitFile ==
    /\ \E n \in 0..MaxLen, k \in 0..MaxLen :
          /\ DM_masses \in {[x \in 1..n |-> GeV * x], [x \in 1..n |-> GeV]}
          /\ couplings \in {[x \in 1..k |-> CM2 * x], [x \in 1..k |-> CM2]}
          /\ p_value_grid \in [1..k -> [1..n -> CurveP]]
    /\ DM_mass = OffAxisMass
    /\ DM_coupling = OffAxisCoupling
    /\ DirectConstructed(0)
    /\ InitRest
    /\ calls = 0

NextFile ==
    \/ \E rank \in {0, 1} : Export_P_Values(rank)
    \/ file # NoFile /\ Import_P_Values(file)

SpecFile == InitFile /\ [][NextFile]_vars

\* ------------------------------------------------- Solar_Reflection_Limit
\* The couplings exp(log_coupling) at which Find_Root evaluates the function
\* and the roots it returns: points of [coupling_min, coupling_max].
BracketCouplings == {CM2 * 1, CM2 * MaxCouplingVal}

\* Lines 256-258: save the originals, DM.Set_Mass(mass).
Upper_Limit_Enter(mass) ==
    /\ mDM_original' = DM_mass
    /\ coupling_original' = DM_coupling
    /\ DM_mass' = mass
    /\ evals' = 0
    /\ pc' = "find_root"
    /\ pre_mass' = DM_mass /\ pre_coupling' = DM_coupling
    /\ outcome' = "running"
    /\ UNCHANGED DM_coupling

\* Upper_Limit called by the driver.
Upper_Limit_Call ==
    /\ pc = "idle"
    /\ calls < MaxCalls
    /\ calls' = calls + 1
    /\ \E mass \in MassVals : Upper_Limit_Enter(mass)
    /\ in_compute' = FALSE
    /\ UNCHANGED <<sessionVars, scanVars, ioVars, masses, limits, curve_file,
                   mass_index, mpi_rank, compute_calls, trace>>

\* Lines 259-270: Find_Root evaluates func at log_coupling, c = exp(log_coupling).
Root_Evaluate(c) ==
    /\ pc = "find_root"
    /\ evals < MaxRootEvals
    /\ DM_coupling' = c
    /\ evals' = evals + 1
    /\ UNCHANGED <<sessionVars, DM_mass, pc, scanVars, savedVars, ioVars,
                   masses, limits, curve_file, in_compute, mass_index, mpi_rank,
                   compute_calls, trace, preVars, outcome, calls>>

\* A collaborator call inside func throws (lines 261-266), after line 260.
Root_PipelineThrow(c) ==
    /\ pc = "find_root"
    /\ evals < MaxRootEvals
    /\ DM_coupling' = c
    /\ pc' = "fatal"
    /\ outcome' = "limit_failed"
    /\ UNCHANGED <<sessionVars, DM_mass, scanVars, savedVars, ioVars,
                   directVars, trace, preVars, calls>>

\* Find_Root itself fails (line 273): no root in the bracket.
Root_NoRoot ==
    /\ pc = "find_root"
    /\ pc' = "fatal"
    /\ outcome' = "limit_failed"
    /\ UNCHANGED <<sessionVars, modelVars, scanVars, savedVars, ioVars,
                   directVars, trace, preVars, calls>>

\* DM.Set_Interaction_Parameter(coupling_original, ...) on return.
RestoredCoupling == coupling_original

\* Lines 273-277: Find_Root returns, the particle model is restored and
\* exp(log_limit) is returned; in Compute_Limit_Curve (lines 290-296) the
\* value is pushed to limits and, on rank 0, written to the open file.
Upper_Limit_Return(root) ==
    /\ pc = "find_root"
    /\ DM_mass' = mDM_original
    /\ DM_coupling' = RestoredCoupling
    /\ outcome' = "upper_limit"
    /\ IF in_compute
       THEN /\ limits' = Append(limits, root)
            /\ curve_file' =
                  IF mpi_rank = 0
                  THEN Append(curve_file, <<masses[mass_index + 1], ToFile(root, CM2)>>)
                  ELSE curve_file
            /\ mass_index' = mass_index + 1
            /\ pc' = "compute_loop"
       ELSE /\ pc' = "idle"
            /\ UNCHANGED <<limits, curve_file, mass_index>>
    /\ UNCHANGED <<sessionVars, scanVars, savedVars, ioVars, masses,
                   in_compute, evals, mpi_rank, compute_calls, trace, preVars,
                   calls>>

\* Lines 282-287: on rank 0 the file is opened (and so emptied).
Compute_Limit_Curve_Call(rank) ==
    /\ pc = "idle"
    /\ compute_calls < MaxComputeCalls
    /\ compute_calls' = compute_calls + 1
    /\ mpi_rank' = rank
    /\ curve_file' = IF rank = 0 THEN <<>> ELSE curve_file
    /\ mass_index' = 0
    /\ in_compute' = TRUE
    /\ pc' = "compute_loop"
    /\ outcome' = "running"
    /\ UNCHANGED <<sessionVars, modelVars, scanVars, savedVars, ioVars,
                   masses, limits, evals, trace, preVars, calls>>

\* Line 288-290: the next mass of the loop, Upper_Limit is called for it.
Compute_NextMass ==
    /\ pc = "compute_loop"
    /\ mass_index < Len(masses)
    /\ Upper_Limit_Enter(masses[mass_index + 1])
    /\ UNCHANGED <<sessionVars, scanVars, ioVars, masses, limits, curve_file,
                   in_compute, mass_index, mpi_rank, compute_calls, trace,
                   calls>>

\* Lines 297-299: the loop is over.
Compute_Limit_Curve_Return ==
    /\ pc = "compute_loop"
    /\ mass_index >= Len(masses)
    /\ in_compute' = FALSE
    /\ pc' = "idle"
    /\ outcome' = "computed"
    /\ UNCHANGED <<sessionVars, modelVars, scanVars, savedVars, ioVars,
                   masses, limits, curve_file, mass_index, evals, mpi_rank,
                   compute_calls, trace, preVars, calls>>

\* Line 307 reads limits[i] for every i < masses.size().
ExportCurveReadsInLimits == Len(limits) >= Len(masses)

\* Export_Curve (lines 301-311).
Export_Curve(rank) ==
    /\ pc = "idle"
    /\ calls < MaxCalls
    /\ calls' = calls + 1
    /\ IF rank # 0
       THEN /\ outcome' = "export_skipped"
            /\ UNCHANGED <<pc, curve_file>>
       ELSE IF ExportCurveReadsInLimits
            THEN /\ curve_file' =
                      [k \in 1..Len(masses) |->
                          <<ToFile(masses[k], GeV), ToFile(limits[k], CM2)>>]
                 /\ outcome' = "curve_exported"
                 /\ UNCHANGED pc
            ELSE \* a read past the end of limits: undefined behaviour
                 /\ pc' = "undefined"
                 /\ outcome' = "undefined"
                 /\ UNCHANGED curve_file
    /\ UNCHANGED <<sessionVars, modelVars, scanVars, savedVars, ioVars,
                   masses, limits, in_compute, mass_index, evals, mpi_rank,
                   compute_calls, trace, preVars>>

Direct_Limit ==
    \/ Upper_Limit_Call
    \/ \E c \in BracketCouplings : Root_Evaluate(c)
    \/ \E c \in BracketCouplings : Root_PipelineThrow(c)
    \/ Root_NoRoot
    \/ \E root \in BracketCouplings : Upper_Limit_Return(root)
    \/ \E rank \in {0, 1} : Compute_Limit_Curve_Call(rank)
    \/ Compute_NextMass
    \/ Compute_Limit_Curve_Return
    \/ \E rank \in {0, 1} : Export_Curve(rank)

\* ------------------------------------------- the particle-model specification
\* One particle model used by a scan session and by a direct-limit session.
\* The program of a behaviour works with one of the two: the other object
\* has empty axes.  The particle model starts on or off the axes.  Besides
\* its Compute_Limit_Curve calls the driver makes one more call (the last
\* of the budget).
InitModel ==
    /\ \E n \in 0..MaxLen, k \in 0..MaxLen, d \in 0..MaxDirectMasses :
          /\ (n = 0 /\ k = 0) \/ d = 0
          /\ Constructed([x \in 1..n |-> GeV * x], [x \in 1..k |-> CM2 * x])
          /\ DirectConstructed(d)
    /\ DM_mass \in {GeV * 1, OffAxisMass}
    /\ DM_coupling \in {CM2 * 1, OffAxisCoupling}
    /\ InitRest
    /\ calls = MaxCalls - 1

NextModel == Perform_Scan \/ Direct_Limit

SpecModel == InitModel /\ [][NextModel]_vars

\* ------------------------------------------------------------------ claims
\* History helpers over the cells evaluated by a Perform_Scan call.
\* The loop position of the last excluding cell among the first k - 1
\* evaluations, or |DM_masses| when there is none.
RECURSIVE LastExclBefore(_)
LastExclBefore(k) ==
    IF k <= 1 THEN Len(DM_masses)
    ELSE IF trace[k - 1].p < P_EXCLUDED THEN trace[k - 1].j
         ELSE LastExclBefore(k - 1)

\* An excluding cell was evaluated in the row of evaluation k before it.
RowExclBefore(k) ==
    \E m \in 1..(k - 1) : trace[m].i = trace[k].i /\ trace[m].p < P_EXCLUDED

\* Row r (0 = largest coupling) holds an excluding cell among the first k - 1
\* evaluations.
RowExcludedBy(r, k) ==
    \E m \in 1..(k - 1) : trace[m].i = r /\ trace[m].p < P_EXCLUDED

Scanning == pc \in {"row_loop", "mass_loop", "row_end", "scan_exit"}

ScanReturned ==
    pc = "idle" /\ outcome \in {"scan_pruned", "scan_completed"}

\* C1: Perform_Scan visits the rows from the largest coupling downward (row
\* i is the coupling couplings[size - 1 - i], rows come in the order 0, 1, ...),
\* and a cell of a row is evaluated only if every row of a larger coupling
\* holds an excluding cell (p < 0.1): once a row ends without exclusion, no
\* cell of a smaller coupling is evaluated in that call.
C1_PruningStopsScan ==
    \A k \in 1..Len(trace) :
        /\ trace[k].coupling = couplings[Len(couplings) - trace[k].i]
        /\ (k = 1 => trace[k].i = 0)
        /\ (k > 1 => trace[k].i \in {trace[k - 1].i, trace[k - 1].i + 1})
        /\ \A r \in 0..(trace[k].i - 1) : RowExcludedBy(r, k)

\* A scan that stopped by pruning with rows of smaller couplings unvisited.
C1_Witness ==
    /\ pc = "idle" /\ outcome = "scan_pruned"
    /\ Len(trace) > 0
    /\ trace[Len(trace)].i < Len(couplings) - 1
    /\ ~RowExcludedBy(trace[Len(trace)].i, Len(trace) + 1)

\* C4: within a row, a non-excluding cell (p >= 0.1) met at a loop position
\* j > last_excluded_mass_index + 1 (the position of the last exclusion of
\* the call so far) with no exclusion in this row is the last cell evaluated
\* in that row, and so is the first non-excluding cell met after an exclusion
\* was found in the row.
C4_EarlyRowBreak ==
    \A k \in 1..Len(trace) :
        (/\ trace[k].p >= P_EXCLUDED
         /\ \/ RowExclBefore(k)
            \/ trace[k].j > LastExclBefore(k) + 1)
        => \A m \in (k + 1)..Len(trace) : trace[m].i # trace[k].i

\* A finished scan in which one row was cut short by the margin test and
\* another by a non-exclusion after an exclusion, both with smaller masses
\* left unevaluated.
C4_Witness ==
    /\ ScanReturned
    /\ \E k \in 1..Len(trace) :
          /\ trace[k].p >= P_EXCLUDED
          /\ ~RowExclBefore(k)
          /\ trace[k].j > LastExclBefore(k) + 1
          /\ trace[k].j < Len(DM_masses) - 1
    /\ \E k \in 1..Len(trace) :
          /\ trace[k].p >= P_EXCLUDED
          /\ RowExclBefore(k)
          /\ trace[k].j < Len(DM_masses) - 1

\* The scenario of C8: masses [1,10,100] GeV and couplings
\* [1e-40,1e-38,1e-36] cm^2 are the axes <<1,2,3>> (by rank), the stub
\* pipeline returns 0.05 when coupling >= 1e-38 and mass <= 10, else 0.9.
StubP(c, m) == IF c >= CM2 * 2 /\ m <= GeV * 2 THEN 3 ELSE 6

ScenarioRun ==
    /\ ScanReturned
    /\ DM_masses = <<GeV * 1, GeV * 2, GeV * 3>>
    /\ couplings = <<CM2 * 1, CM2 * 2, CM2 * 3>>
    /\ \A k \in 1..Len(trace) : trace[k].p = StubP(trace[k].coupling, trace[k].mass)

ScenarioGrid ==
    \A r \in 1..3, c \in 1..3 :
        p_value_grid[r][c] = 3 <=> (r >= 2 /\ c <= 2)

ScenarioCurve ==
    LET cols == CurveColumns(Len(DM_masses), P_EXCLUDED)
    IN  [k \in 1..Len(cols) |-> DM_masses[cols[k]]] = <<GeV * 1, GeV * 2>>

\* C8 as stated: in the scenario 0.05 is stored in exactly the four cells
\* (coupling in {1e-38,1e-36}, mass in {1,10}), the scan stops early so that
\* fewer than nine cells are evaluated, and Limit_Curve(0.90) has exactly
\* the two entries for masses 1 and 10.
C8_Original ==
    ScenarioRun => (ScenarioGrid /\ Len(trace) < 9 /\ ScenarioCurve)

\* C8 (amended): in the scenario 0.05 is stored in exactly those four
\* cells, all nine cells are evaluated (no row is cut short and the scan
\* is not pruned before the last row), and Limit_Curve(0.90) has exactly
\* the two entries for masses 1 and 10.
C8_ScenarioAllCellsEvaluated ==
    ScenarioRun =>
        /\ ScenarioGrid
        /\ Len(trace) = 9
        /\ \A r \in 0..2, c \in 0..2 :
              \E k \in 1..Len(trace) : trace[k].i = r /\ trace[k].j = c
        /\ ScenarioCurve

C8_Witness == ScenarioRun /\ Len(trace) > 0

\* C9: last_excluded_mass_index is |DM_masses| at the start of the call and
\* is never reset between rows: throughout the call it is the loop position
\* j of the last excluding cell evaluated so far (or |DM_masses|).  When a
\* row after the first begins, that cell lies in the immediately preceding
\* row.  In the first row no cell is met at j > last_excluded_mass_index + 1,
\* and a first row without exclusion runs through every mass.
C9_LastExcludedPersists ==
    Scanning =>
        /\ last_excluded_mass_index = LastExclBefore(Len(trace) + 1)
        /\ (pc = "mass_loop" /\ j = 0 /\ i > 0) =>
              /\ RowExcludedBy(i - 1, Len(trace) + 1)
              /\ \A m \in 1..Len(trace) :
                    (trace[m].i < i - 1 /\ trace[m].p < P_EXCLUDED)
                    => \E n \in (m + 1)..Len(trace) :
                          trace[n].i = i - 1 /\ trace[n].p < P_EXCLUDED
              /\ last_excluded_mass_index < Len(DM_masses)
        /\ \A k \in 1..Len(trace) :
              trace[k].i = 0 => trace[k].j <= LastExclBefore(k) + 1
        /\ (pc = "row_end" /\ i = 0 /\ ~row_exclusion) => j = Len(DM_masses)

\* The third row begins with the position carried over from the second.
C9_Witness ==
    /\ pc = "mass_loop" /\ i = 2 /\ j = 0
    /\ last_excluded_mass_index = 1
    /\ \E m \in 1..Len(trace) : trace[m].i = 0 /\ trace[m].p < P_EXCLUDED /\ trace[m].j = 2

\* C2 (Perform_Scan and Upper_Limit): when either returns normally, by
\* completing or by pruning, the particle model's mass and coupling are the
\* values they had immediately before the call.
C2_ModelRestoredOnReturn ==
    (ScanReturned \/ outcome = "upper_limit") =>
        /\ DM_mass = pre_mass
        /\ DM_coupling = pre_coupling

\* Upper_Limit returned after Find_Root moved the coupling into the
\* bracket, the particle model having started off the axes.
C2_Witness ==
    /\ outcome = "upper_limit"
    /\ evals > 0
    /\ pre_mass = OffAxisMass /\ pre_coupling = OffAxisCoupling
    /\ DM_mass = OffAxisMass /\ DM_coupling = OffAxisCoupling

\* C3 as stated: at all times after construction the grid has exactly
\* |couplings| rows and every row has exactly |DM_masses| columns.
C3_GridDimensions ==
    /\ Len(p_value_grid) = Len(couplings)
    /\ \A r \in 1..Len(p_value_grid) : Len(p_value_grid[r]) = Len(DM_masses)

\* The mass columns whose p-value in the row of index |couplings| - 1 is
\* below 1 - CL.
Qualifying(q) ==
    {c \in 1..Len(DM_masses) : p_value_grid[Len(couplings)][c] < q}

\* C5: when Limit_Curve(CL) returns, its entries are, in ascending column
\* order, the masses of exactly the columns whose p-value in the
\* largest-coupling row is < 1 - CL, one entry per such column and none for
\* any other column, whatever the other rows hold.
C5_CurveFollowsExtremeRow ==
    outcome = "limit_curve" =>
        /\ Len(limit) = Cardinality(Qualifying(limit_q))
        /\ \A k \in 1..Len(limit) :
              \E c \in Qualifying(limit_q) :
                  /\ Cardinality({d \in Qualifying(limit_q) : d < c}) = k - 1
                  /\ limit[k][1] = DM_masses[c]
                  /\ limit[k][2] \in Range(couplings)

\* A curve that keeps some masses and omits others, from a grid whose
\* smallest-coupling row crosses in other columns than the largest-coupling
\* row.
C5_Witness ==
    /\ outcome = "limit_curve"
    /\ Len(couplings) >= 2
    /\ Len(limit) >= 1 /\ Len(limit) < Len(DM_masses)
    /\ \E c \in 1..Len(DM_masses) :
          (p_value_grid[1][c] < limit_q) # (p_value_grid[Len(couplings)][c] < limit_q)

\* C6 as stated: for every session the constructor accepts, exporting on
\* rank 0 and importing the written table reproduces both axes and every
\* grid cell.
C6_Original ==
    outcome = "imported_file" =>
        <<DM_masses, couplings, p_value_grid>> = exported

NoDuplicates(s) == \A a, b \in 1..Len(s) : a # b => s[a] # s[b]

\* C6 (amended): for every session with a non-empty coupling axis and a
\* non-empty mass axis without duplicates, exporting on rank 0 and importing
\* the written table into that session reproduces both axes and every grid
\* cell.
C6_RoundTripDistinctMasses ==
    (/\ outcome = "imported_file"
     /\ exported[1] # <<>> /\ exported[2] # <<>>
     /\ NoDuplicates(exported[1]))
    => <<DM_masses, couplings, p_value_grid>> = exported

\* A round trip of a 2 x 2 session whose four cells hold three different
\* p-values and whose coupling axis repeats a value.
C6_Witness ==
    /\ outcome = "imported_file"
    /\ Len(exported[1]) >= 2 /\ Len(exported[2]) >= 2
    /\ NoDuplicates(exported[1])
    /\ p_value_grid[1][2] # p_value_grid[2][1]
    /\ p_value_grid[1][1] # p_value_grid[1][2]
    /\ p_value_grid[1][1] # p_value_grid[2][1]

\* C7 as stated: Perform_Scan restores the particle model also when a
\* collaborator call fails and the failure propagates out of the scan.
C7_RestoredOnFailure ==
    outcome = "scan_failed" =>
        /\ DM_mass = pre_mass
        /\ DM_coupling = pre_coupling

\* C10 as stated: after any sequence of Compute_Limit_Curve calls the limits
\* hold exactly one limit per mass of the mass axis.
C10_OneLimitPerMass ==
    outcome = "computed" => Len(limits) = Len(masses)

====
